---------------------------- MODULE Spec2Model ----------------------------
(* A model of the Git backend of the vcs package (src/git.go):            *)
(*   - NewGitRepo, step by step, against a filesystem, the process-wide   *)
(*     working directory and the git executable;                          *)
(*   - Update (fetch, then pull);                                         *)
(*   - Branches and Tags (regular-expression scraping of git show-ref).   *)
(* Strings that the code transforms (tool output, ref dumps, patterns)    *)
(* are sequences of one-character strings.                                *)
EXTENDS Naturals, Sequences, FiniteSets

VARIABLES
  fs,        \* directory -> [markers, remote]: what is on disk
  cwd,       \* the process-wide current working directory
  cwd0,      \* the working directory before any call
  faults,    \* whether Getwd, Chdir and exec may fail for outside reasons
  procs,     \* the callers of NewGitRepo
  pc,        \* caller -> its position in NewGitRepo
  call,      \* caller -> the locals of its NewGitRepo call
  execLog,   \* the git processes run by NewGitRepo, in order
  h,         \* the handle Update, Branches and Tags are called on
  upc,       \* position in Update
  ucalls,    \* number of Update calls started
  ulog,      \* the commands the current Update call has run
  uret,      \* what the last Update call returned
  dump,      \* what git show-ref prints in the checkout of h
  branchesRet, \* what Branches returned
  tagsRet    \* what Tags returned

vars == <<fs, cwd, cwd0, faults, procs, pc, call, execLog,
          h, upc, ucalls, ulog, uret, dump, branchesRet, tagsRet>>

ctorVars == <<fs, cwd, cwd0, faults, procs, pc, call, execLog>>
updVars == <<upc, ucalls, ulog, uret>>
refVars == <<dump, branchesRet, tagsRet>>

Nil == "nil"

(* ------------------------------ strings ------------------------------ *)

Empty == <<>>

NL == "\n"

\* unicode.IsSpace on the characters the model uses
IsSpace(c) == c \in {" ", "\n", "\t", "\r"}

RECURSIVE TrimLeft(_)
TrimLeft(s) ==
  IF s # <<>> /\ IsSpace(Head(s)) THEN TrimLeft(Tail(s)) ELSE s

RECURSIVE TrimRight(_)
TrimRight(s) ==
  IF s # <<>> /\ IsSpace(s[Len(s)])
  THEN TrimRight(SubSeq(s, 1, Len(s) - 1))
  ELSE s

TrimSpace_NoTrim(s) == s

\* strings.TrimSpace
TrimSpace(s) == TrimRight(TrimLeft(s))

(* --------------------------- the environment -------------------------- *)

Dirs == {"/w", "/a", "/b"}

UrlA == <<"u", "a">>

UrlB == <<"u", "b">>

\* the remote.origin.url values a checkout may have when the key is set
RemoteCfgs == {Empty, UrlA, UrlB}

\* the remote argument of NewGitRepo
RemoteArgs == {Empty, UrlA, UrlB}

\* what a directory may hold: no checkout, a Mercurial one, or a Git one
\* (hasRemote: remote.origin.url is set, to remote)
DirStates ==
  {[markers |-> {}, hasRemote |-> FALSE, remote |-> Empty],
   [markers |-> {".hg"}, hasRemote |-> FALSE, remote |-> Empty],
   [markers |-> {".git"}, hasRemote |-> FALSE, remote |-> Empty]}
  \cup {[markers |-> {".git"}, hasRemote |-> TRUE, remote |-> c] :
          c \in RemoteCfgs}

ErrWrongVCS == "ErrWrongVCS"

ErrWrongRemote == "ErrWrongRemote"

ErrCannotDetectVCS == "ErrCannotDetectVCS"

\* DetectVcsFromFS: the type of the checkout at a path, from its marker
DetectVcsFromFS(local) ==
  IF ".git" \in fs[local].markers THEN [type |-> "Git", err |-> Nil]
  ELSE IF ".hg" \in fs[local].markers THEN [type |-> "Hg", err |-> Nil]
  ELSE [type |-> "", err |-> ErrCannotDetectVCS]

\* outcomes of a system call: TRUE it succeeds, FALSE it fails
Outcomes == IF faults THEN BOOLEAN ELSE {TRUE}

\* exec git config --get remote.origin.url in directory d:
\* the combined output and the error
GitConfigGet(d, ok) ==
  IF ~ok THEN [out |-> Empty, err |-> "ErrExec"]
  ELSE IF ".git" \in fs[d].markers /\ fs[d].hasRemote
  THEN [out |-> fs[d].remote \o <<NL>>, err |-> Nil]
  ELSE [out |-> Empty, err |-> "exit status 1"]

(* ----------------------------- NewGitRepo ----------------------------- *)

\* line 22: the default remote-tracking name
Origin == <<"o", "r", "i", "g", "i", "n">>

\* &GitRepo{}
NewHandle ==
  [nil |-> FALSE, remote |-> Empty, local |-> "", RemoteLocation |-> Empty,
   sets |-> 0]

\* the nil *GitRepo
NilRepo == [NewHandle EXCEPT !.nil = TRUE]

Return(handle, err) == [handle |-> handle, err |-> err]

\* the locals of a call, and what the call has done so far:
\*   before: the working directory when the call began
\*   failed: the steps that failed; chdirs: the os.Chdir calls made
\*   qran, qdir, qerr, qout: the configuration query, the directory it ran
\*   in, its error and its output; overlap: another call was in progress
\*   at some time during this one
NoCall ==
  [remote |-> Empty, local |-> "/w", before |-> "/w", ltype |-> "",
   err |-> Nil, r |-> NilRepo, oldDir |-> Nil, ret |-> Return(NilRepo, Nil),
   failed |-> {}, chdirs |-> 0, qran |-> FALSE, qdir |-> Nil, qerr |-> Nil,
   qout |-> Empty, overlap |-> FALSE]

\* base.setRemote
setRemote(r, remote) ==
  [r EXCEPT !.remote = remote, !.sets = r.sets + 1]

\* base.setLocalPath
setLocalPath(r, local) == [r EXCEPT !.local = local]

WrongVCS_Never(err, ltype) == FALSE

\* line 15: a VCS other than Git was found
WrongVCS(err, ltype) == err = Nil /\ ltype # "Git"

\* GitRepo.CheckLocal: os.Stat(LocalPath + "/.git") succeeds
CheckLocal(r) == ".git" \in fs[r.local].markers

Active(p) == pc[p] \notin {"idle", "done"}

\* lines 11-23: detection, the wrong-VCS return, the handle
NewGitRepo(p) ==
  /\ pc[p] = "idle"
  /\ \E remote \in RemoteArgs, local \in Dirs :
       LET d == DetectVcsFromFS(local)
           r == [setLocalPath(setRemote(NewHandle, remote), local)
                   EXCEPT !.RemoteLocation = Origin]
           c == [NoCall EXCEPT !.remote = remote, !.local = local,
                               !.before = cwd, !.ltype = d.type,
                               !.err = d.err,
                               !.failed = IF d.err # Nil THEN {"detect"} ELSE {},
                               !.overlap = \E q \in procs : Active(q)]
       IN IF WrongVCS(d.err, d.type)
          THEN /\ call' = [call EXCEPT ![p] =
                             [c EXCEPT !.ret = Return(NilRepo, ErrWrongVCS)]]
               /\ pc' = [pc EXCEPT ![p] = "done"]
          ELSE /\ call' = [q \in procs |->
                             IF q = p THEN [c EXCEPT !.r = r]
                             ELSE IF Active(q)
                             THEN [call[q] EXCEPT !.overlap = TRUE]
                             ELSE call[q]]
               /\ pc' = [pc EXCEPT ![p] = "checkLocal"]
  /\ UNCHANGED <<fs, cwd, cwd0, faults, procs, execLog, h, updVars, refVars>>

\* line 27 (and 51 when the test fails)
CheckLocalStep(p) ==
  /\ pc[p] = "checkLocal"
  /\ IF call[p].err = Nil /\ CheckLocal(call[p].r)
     THEN /\ pc' = [pc EXCEPT ![p] = "getwd"]
          /\ call' = call
     ELSE /\ pc' = [pc EXCEPT ![p] = "done"]
          /\ call' = [call EXCEPT ![p].ret = Return(call[p].r, Nil)]
  /\ UNCHANGED <<fs, cwd, cwd0, faults, procs, execLog, h, updVars, refVars>>

GetwdFailed_KeepsHandle(r) == Return(r, "ErrGetwd")

\* lines 29-31
GetwdFailed(r) == Return(NilRepo, "ErrGetwd")

\* lines 28-31: os.Getwd
Getwd(p) ==
  /\ pc[p] = "getwd"
  /\ \E ok \in Outcomes :
       IF ok
       THEN /\ call' = [call EXCEPT ![p].oldDir = cwd]
            /\ pc' = [pc EXCEPT ![p] = "chdir"]
       ELSE /\ call' = [call EXCEPT ![p].ret = GetwdFailed(call[p].r),
                                    ![p].failed = @ \cup {"getwd"}]
            /\ pc' = [pc EXCEPT ![p] = "done"]
  /\ UNCHANGED <<fs, cwd, cwd0, faults, procs, execLog, h, updVars, refVars>>

Chdir_Skipped(p) ==
  /\ pc[p] = "chdir"
  /\ call' = [call EXCEPT ![p].chdirs = @ + 1]
  /\ pc' = [pc EXCEPT ![p] = "config"]
  /\ UNCHANGED <<fs, cwd, cwd0, faults, procs, execLog, h, updVars, refVars>>

\* line 32: os.Chdir(local), its error dropped
Chdir(p) ==
  /\ pc[p] = "chdir"
  /\ \E ok \in Outcomes :
       /\ cwd' = IF ok THEN call[p].local ELSE cwd
       /\ call' = [call EXCEPT
                     ![p].failed = IF ok THEN @ ELSE @ \cup {"chdir"},
                     ![p].chdirs = @ + 1]
  /\ pc' = [pc EXCEPT ![p] = "config"]
  /\ UNCHANGED <<fs, cwd0, faults, procs, execLog, h, updVars, refVars>>

RemoteMismatch_Inverted(remote, out) ==
  remote # Empty /\ TrimSpace(out) = remote

\* lines 39-40
RemoteMismatch(remote, out) ==
  remote # Empty /\ TrimSpace(out) # remote

\* lines 39, 46
ShouldAdopt(remote, out) == remote = Empty /\ TrimSpace(out) # Empty

ConfigFailed_KeepsHandle(r, err) == Return(r, err)

\* lines 35-37
ConfigFailed(r, err) == Return(NilRepo, err)

\* lines 34-51: the configuration query and the reconciliation
Config(p) ==
  /\ pc[p] = "config"
  /\ \E ok \in Outcomes :
       LET q == GitConfigGet(cwd, ok)
           c == call[p]
           ret == IF q.err # Nil THEN ConfigFailed(c.r, q.err)
                  ELSE IF RemoteMismatch(c.remote, q.out)
                  THEN Return(NilRepo, ErrWrongRemote)
                  ELSE IF ShouldAdopt(c.remote, q.out)
                  THEN Return(setRemote(c.r, TrimSpace(q.out)), Nil)
                  ELSE Return(c.r, Nil)
       IN /\ call' = [call EXCEPT
                        ![p].ret = ret,
                        ![p].qran = TRUE,
                        ![p].qdir = cwd,
                        ![p].qerr = q.err,
                        ![p].qout = q.out,
                        ![p].failed = IF q.err # Nil THEN @ \cup {"config"} ELSE @]
          /\ execLog' = Append(execLog, [proc |-> p, dir |-> cwd])
  /\ pc' = [pc EXCEPT ![p] = "deferred"]
  /\ UNCHANGED <<fs, cwd, cwd0, faults, procs, h, updVars, refVars>>

Deferred_StaysInLocal(p) ==
  /\ pc[p] = "deferred"
  /\ call' = [call EXCEPT ![p].chdirs = @ + 1]
  /\ pc' = [pc EXCEPT ![p] = "done"]
  /\ UNCHANGED <<fs, cwd, cwd0, faults, procs, execLog, h, updVars, refVars>>

\* line 33: the deferred os.Chdir(oldDir), its error dropped
Deferred(p) ==
  /\ pc[p] = "deferred"
  /\ \E ok \in Outcomes :
       /\ cwd' = IF ok THEN call[p].oldDir ELSE cwd
       /\ call' = [call EXCEPT
                     ![p].failed = IF ok THEN @ ELSE @ \cup {"restore"},
                     ![p].chdirs = @ + 1]
  /\ pc' = [pc EXCEPT ![p] = "done"]
  /\ UNCHANGED <<fs, cwd0, faults, procs, execLog, h, updVars, refVars>>

(* ------------------------- Update (lines 71-80) ----------------------- *)

\* the errors a command run by runFromDir may end with
RunErrs == {"exit status 1", "exit status 128"}

\* the remote-tracking names a handle may carry
RemoteNames == {Origin, <<"u", "p">>}

\* the handles the operations are called on
Handles ==
  [remote : {UrlA}, local : Dirs, RemoteLocation : RemoteNames]

\* base.runFromDir: one run of a command in the handle's local path,
\* ending with error e (Nil: success)
runFromDir(hd, cmd, e) == [cmd |-> cmd, dir |-> hd.local, err |-> e]

MaxCalls == 3

\* entry of Update
UpdateCall ==
  /\ upc \in {"idle", "returned"}
  /\ ucalls < MaxCalls
  /\ ucalls' = ucalls + 1
  /\ upc' = "fetch"
  /\ ulog' = <<>>
  /\ uret' = Nil
  /\ UNCHANGED <<ctorVars, h, refVars>>

UpdateFetch_IgnoresError ==
  /\ upc = "fetch"
  /\ \E e \in RunErrs \cup {Nil} :
       /\ ulog' = Append(ulog, runFromDir(h, <<"git", "fetch", h.RemoteLocation>>, e))
       /\ upc' = "pull"
       /\ uret' = uret
  /\ UNCHANGED <<ctorVars, h, ucalls, refVars>>

\* lines 74-77: git fetch <RemoteLocation>; its error ends the call
UpdateFetch ==
  /\ upc = "fetch"
  /\ \E e \in RunErrs \cup {Nil} :
       /\ ulog' = Append(ulog, runFromDir(h, <<"git", "fetch", h.RemoteLocation>>, e))
       /\ IF e # Nil
          THEN upc' = "returned" /\ uret' = e
          ELSE upc' = "pull" /\ uret' = uret
  /\ UNCHANGED <<ctorVars, h, ucalls, refVars>>

\* lines 78-79: git pull; its error is the result
UpdatePull ==
  /\ upc = "pull"
  /\ \E e \in RunErrs \cup {Nil} :
       /\ ulog' = Append(ulog, runFromDir(h, <<"git", "pull">>, e))
       /\ uret' = e
  /\ upc' = "returned"
  /\ UNCHANGED <<ctorVars, h, ucalls, refVars>>

(* -------------------- Branches and Tags (lines 98-116) ---------------- *)

LineOriginMain ==
  <<"a", "b", "c", "1", "2", "3", " ", "r", "e", "f", "s", "/", "r",
    "e", "m", "o", "t", "e", "s", "/", "o", "r", "i", "g", "i", "n",
    "/", "m", "a", "i", "n">>

LineOriginFeatureX ==
  <<"d", "e", "f", "4", "5", "6", " ", "r", "e", "f", "s", "/", "r",
    "e", "m", "o", "t", "e", "s", "/", "o", "r", "i", "g", "i", "n",
    "/", "f", "e", "a", "t", "u", "r", "e", "/", "x">>

LineTagV1 ==
  <<"a", "b", "c", "1", "2", "3", " ", "r", "e", "f", "s", "/", "t",
    "a", "g", "s", "/", "v", "1", ".", "0", ".", "0">>

LineHeadMain ==
  <<"a", "b", "c", "1", "2", "3", " ", "r", "e", "f", "s", "/", "h",
    "e", "a", "d", "s", "/", "m", "a", "i", "n">>

LineUpMain ==
  <<"0", "a", "1", "b", "2", "c", " ", "r", "e", "f", "s", "/", "r",
    "e", "m", "o", "t", "e", "s", "/", "u", "p", "/", "m", "a", "i",
    "n">>

LineHeadOriginX ==
  <<"0", "a", "1", "b", "2", "c", " ", "r", "e", "f", "s", "/", "h",
    "e", "a", "d", "s", "/", "o", "r", "i", "g", "i", "n", "/", "x">>

LineHeadTagsY ==
  <<"d", "e", "f", "4", "5", "6", " ", "r", "e", "f", "s", "/", "h",
    "e", "a", "d", "s", "/", "t", "a", "g", "s", "/", "y">>

LineOriginTagsZ ==
  <<"d", "e", "f", "4", "5", "6", " ", "r", "e", "f", "s", "/", "r",
    "e", "m", "o", "t", "e", "s", "/", "o", "r", "i", "g", "i", "n",
    "/", "t", "a", "g", "s", "/", "z">>

\* lines git show-ref may print
RefLines ==
  {LineOriginMain,
   LineOriginFeatureX,
   LineTagV1,
   LineHeadMain,
   LineUpMain,
   LineHeadOriginX,
   LineHeadTagsY,
   LineOriginTagsZ}

MaxLines == 2

\* the output of git show-ref: each line of the dump, newline-terminated
RECURSIVE ShowRefOutput(_)
ShowRefOutput(lines) ==
  IF lines = <<>> THEN <<>>
  ELSE Head(lines) \o <<NL>> \o ShowRefOutput(Tail(lines))

\* \S
NonSpace(c) == ~IsSpace(c)

\* the last index of the longest run of \S characters of text that starts
\* at j (j - 1 when there is none)
RECURSIVE RunEnd(_, _)
RunEnd(text, j) ==
  IF j <= Len(text) /\ NonSpace(text[j]) THEN RunEnd(text, j + 1) ELSE j - 1

\* $ under (?m): at the end of the text or before a newline
AtLineEnd(text, k) == k = Len(text) \/ text[k + 1] = NL

\* whether (?m-s)(?:lit)/(\S+)$ matches text at i; \S+ cannot cross the
\* space or newline that ends its longest run, so it matches only when that
\* run reaches the end of the line
MatchAt(text, i, lit) ==
  LET n == Len(lit) + 1
      k == RunEnd(text, i + n)
  IN /\ i + n - 1 <= Len(text)
     /\ SubSeq(text, i, i + n - 1) = lit \o <<"/">>
     /\ k >= i + n
     /\ AtLineEnd(text, k)

\* regexp.FindAllStringSubmatch(c, -1), group 1 of each match: the matches
\* from left to right, each search starting after the previous match
RECURSIVE FindAllGroup1(_, _, _)
FindAllGroup1(text, lit, i) ==
  IF i > Len(text) THEN <<>>
  ELSE IF MatchAt(text, i, lit)
  THEN LET k == RunEnd(text, i + Len(lit) + 1)
       IN <<SubSeq(text, i + Len(lit) + 1, k)>> \o FindAllGroup1(text, lit, k + 1)
  ELSE FindAllGroup1(text, lit, i + 1)

\* base.referenceList(c, r) for the patterns (?m-s)(?:lit)/(\S+)$
referenceList(c, lit) == FindAllGroup1(c, lit, 1)

\* line 104: the literal of the pattern of Branches
BranchesPattern(hd) == hd.RemoteLocation

\* line 114: the literal of the pattern of Tags
TagsPattern == <<"t", "a", "g", "s">>

NoList == [called |-> FALSE, list |-> <<>>, err |-> Nil]

\* lines 99-106
Branches ==
  /\ ~branchesRet.called
  /\ \E e \in RunErrs \cup {Nil} :
       LET out == runFromDir(h, <<"git", "show-ref">>, e)
       IN branchesRet' =
            IF out.err # Nil
            THEN [called |-> TRUE, list |-> <<>>, err |-> out.err]
            ELSE [called |-> TRUE,
                  list |-> referenceList(ShowRefOutput(dump), BranchesPattern(h)),
                  err |-> Nil]
  /\ UNCHANGED <<ctorVars, h, updVars, dump, tagsRet>>

\* lines 109-116
Tags ==
  /\ ~tagsRet.called
  /\ \E e \in RunErrs \cup {Nil} :
       LET out == runFromDir(h, <<"git", "show-ref">>, e)
       IN tagsRet' =
            IF out.err # Nil
            THEN [called |-> TRUE, list |-> <<>>, err |-> out.err]
            ELSE [called |-> TRUE,
                  list |-> referenceList(ShowRefOutput(dump), TagsPattern),
                  err |-> Nil]
  /\ UNCHANGED <<ctorVars, h, updVars, dump, branchesRet>>

(* --------------------------- specifications --------------------------- *)

NoHandle == [remote |-> Empty, local |-> "/w", RemoteLocation |-> Empty]

IdleOps ==
  /\ h = NoHandle
  /\ upc = "idle"
  /\ ucalls = 0
  /\ ulog = <<>>
  /\ uret = Nil
  /\ dump = <<>>
  /\ branchesRet = NoList
  /\ tagsRet = NoList

\* the directory contents of the two-caller specification
ConcDirStates ==
  {d \in DirStates : d.markers = {} \/ (d.hasRemote /\ d.remote # Empty)}

InitCtor(P, F, D) ==
  /\ fs \in [Dirs -> D]
  /\ cwd \in Dirs
  /\ cwd0 = cwd
  /\ faults \in F
  /\ procs = P
  /\ pc = [p \in P |-> "idle"]
  /\ call = [p \in P |-> NoCall]
  /\ execLog = <<>>
  /\ IdleOps

Init == InitCtor({1}, BOOLEAN, DirStates)

Next ==
  \/ \E p \in procs : NewGitRepo(p)
  \/ \E p \in procs : CheckLocalStep(p)
  \/ \E p \in procs : Getwd(p)
  \/ \E p \in procs : Chdir(p)
  \/ \E p \in procs : Config(p)
  \/ \E p \in procs : Deferred(p)

\* one caller; system calls may fail
Spec == Init /\ [][Next]_vars

InitConc == InitCtor({1, 2}, {FALSE}, ConcDirStates)

\* two callers, their steps interleaved in any order; system calls succeed
SpecConc == InitConc /\ [][Next]_vars

\* no NewGitRepo call: the operations start from a handle
IdleCtor ==
  /\ fs = [d \in Dirs |-> [markers |-> {".git"}, hasRemote |-> TRUE, remote |-> UrlA]]
  /\ cwd = "/w"
  /\ cwd0 = "/w"
  /\ faults = FALSE
  /\ procs = {}
  /\ pc = <<>>
  /\ call = <<>>
  /\ execLog = <<>>

InitUpdate ==
  /\ IdleCtor
  /\ h \in Handles
  /\ upc = "idle"
  /\ ucalls = 0
  /\ ulog = <<>>
  /\ uret = Nil
  /\ dump = <<>>
  /\ branchesRet = NoList
  /\ tagsRet = NoList

NextUpdate ==
  \/ UpdateCall
  \/ UpdateFetch
  \/ UpdatePull

\* Update called up to MaxCalls times on one handle
SpecUpdate == InitUpdate /\ [][NextUpdate]_vars

\* the dumps of up to n lines
RECURSIVE Dumps(_)
Dumps(n) ==
  IF n = 0 THEN {<<>>}
  ELSE Dumps(n - 1) \cup {Append(d, l) : d \in {x \in Dumps(n - 1) : Len(x) = n - 1}, l \in RefLines}

InitRefs ==
  /\ IdleCtor
  /\ h \in Handles
  /\ upc = "idle"
  /\ ucalls = 0
  /\ ulog = <<>>
  /\ uret = Nil
  /\ dump \in Dumps(MaxLines)
  /\ branchesRet = NoList
  /\ tagsRet = NoList

NextRefs ==
  \/ Branches
  \/ Tags

\* Branches and Tags called on a checkout with any dump of up to MaxLines lines
SpecRefs == InitRefs /\ [][NextRefs]_vars

(* ------------------------ NewGitRepo: claims -------------------------- *)

Done(p) == pc[p] = "done"

\* the call of p found a Git checkout at local and its configuration query
\* ran in local and exited 0 with the URL configured there
QueriedLocal(p) ==
  /\ call[p].err = Nil
  /\ call[p].ltype = "Git"
  /\ call[p].qran
  /\ call[p].qerr = Nil
  /\ call[p].qdir = call[p].local
  /\ fs[call[p].local].hasRemote

\* C1: a call whose detection succeeds and reports a VCS other than Git
\* returns (nil, ErrWrongVCS), having run no git process and made no
\* os.Chdir call; the working directory is untouched.
C1_WrongVCS ==
  \A p \in procs :
    Done(p) /\ call[p].err = Nil /\ call[p].ltype # "Git"
    => /\ call[p].ret = Return(NilRepo, ErrWrongVCS)
       /\ execLog = <<>>
       /\ call[p].chdirs = 0
       /\ cwd = call[p].before

C1_Witness ==
  \E p \in procs :
    /\ Done(p)
    /\ call[p].ltype = "Hg"
    /\ call[p].remote = UrlA
    /\ call[p].ret.err = ErrWrongVCS

\* C2: a call with a non-empty remote R1 on a Git checkout whose configured
\* remote URL, as read by the query, is R2 # R1 returns (nil, ErrWrongRemote).
C2_WrongRemote ==
  \A p \in procs :
    Done(p) /\ QueriedLocal(p) /\ call[p].remote # Empty
            /\ fs[call[p].local].remote # call[p].remote
    => call[p].ret = Return(NilRepo, ErrWrongRemote)

C2_Witness ==
  \E p \in procs :
    /\ Done(p)
    /\ QueriedLocal(p)
    /\ call[p].remote = UrlA
    /\ fs[call[p].local].remote = UrlB
    /\ call[p].ret.err = ErrWrongRemote

\* C3: a call with remote "" on a Git checkout whose configured remote is
\* R # "" succeeds and the handle's Remote() is R; a returned handle's remote
\* was set once from the argument, and a second time only by the adoption.
C3_AdoptRemote ==
  \A p \in procs :
    Done(p) =>
      /\ QueriedLocal(p) /\ call[p].remote = Empty
                         /\ fs[call[p].local].remote # Empty
         => /\ call[p].ret.err = Nil
            /\ ~call[p].ret.handle.nil
            /\ call[p].ret.handle.remote = fs[call[p].local].remote
            /\ call[p].ret.handle.sets = 2
      /\ ~call[p].ret.handle.nil
         => \/ /\ call[p].ret.handle.sets = 1
               /\ call[p].ret.handle.remote = call[p].remote
            \/ /\ call[p].ret.handle.sets = 2
               /\ call[p].remote = Empty
               /\ call[p].qran
               /\ call[p].qerr = Nil
               /\ call[p].ret.handle.remote = fs[call[p].qdir].remote
               /\ call[p].ret.handle.remote # Empty

C3_Witness ==
  \E p \in procs :
    /\ Done(p)
    /\ QueriedLocal(p)
    /\ call[p].remote = Empty
    /\ fs[call[p].local].remote = UrlB
    /\ call[p].ret.handle.remote = UrlB

\* C4 as claimed: after a call returns, on every exit path and also when
\* the change into local or the change back fails, the working directory is
\* the one in effect before the call.
C4_AlwaysRestored ==
  \A p \in procs : Done(p) => cwd = call[p].before

\* C4 as amended: after a call returns the working directory is the one in
\* effect before the call, except when the change into local succeeded and
\* the deferred change back failed: then it is local.
C4_RestoredUnlessChdirBackFails ==
  \A p \in procs :
    Done(p) =>
      cwd = IF "restore" \in call[p].failed /\ "chdir" \notin call[p].failed
            THEN call[p].local
            ELSE call[p].before

C4_Witness ==
  \E p \in procs :
    /\ Done(p)
    /\ call[p].chdirs = 2
    /\ call[p].failed = {"config"}
    /\ call[p].local # call[p].before
    /\ cwd = call[p].before

\* C6 as claimed: an error in detection, Getwd, the change into local or
\* the configuration query is what the call returns, with no handle.
C6_AllErrorsPropagated ==
  \A p \in procs :
    Done(p) /\ call[p].failed \cap {"detect", "getwd", "chdir", "config"} # {}
    => /\ call[p].ret.handle.nil
       /\ call[p].ret.err # Nil

\* C6 as amended: an error of Getwd or of the configuration query is what
\* the call returns, unwrapped, with no handle. An error of detection is not
\* returned: the reconciliation is skipped (no Getwd, Chdir or git process)
\* and the call returns the handle with a nil error. An error of the change
\* into local is dropped: the query runs in the unchanged working directory
\* and decides the result.
C6_ErrorsPropagatedOrDropped ==
  \A p \in procs :
    Done(p) =>
      /\ "getwd" \in call[p].failed
         => call[p].ret = Return(NilRepo, "ErrGetwd") /\ ~call[p].qran
      /\ "config" \in call[p].failed
         => call[p].ret = Return(NilRepo, call[p].qerr) /\ call[p].qerr # Nil
      /\ "detect" \in call[p].failed
         => /\ ~call[p].ret.handle.nil
            /\ call[p].ret.err = Nil
            /\ call[p].failed = {"detect"}
            /\ ~call[p].qran
            /\ call[p].chdirs = 0
      /\ "chdir" \in call[p].failed
         => /\ call[p].qran
            /\ call[p].qdir = call[p].before
            /\ call[p].ret.err \in {Nil, ErrWrongRemote, call[p].qerr}

C6_Witness ==
  \E p \in procs :
    /\ Done(p)
    /\ "getwd" \in call[p].failed
    /\ call[p].ret.err = "ErrGetwd"

\* C9: a call returns either a handle and a nil error, or no handle and an
\* error; a returned handle has LocalPath() equal to the local argument and
\* remote-tracking name "origin".
C9_AllOrNothing ==
  \A p \in procs :
    Done(p) =>
      \/ /\ ~call[p].ret.handle.nil
         /\ call[p].ret.err = Nil
         /\ call[p].ret.handle.local = call[p].local
         /\ call[p].ret.handle.RemoteLocation = Origin
      \/ /\ call[p].ret.handle = NilRepo
         /\ call[p].ret.err # Nil

C9_Witness ==
  \E p \in procs :
    /\ Done(p)
    /\ "config" \in call[p].failed
    /\ call[p].ret.handle.nil
    /\ call[p].ret.err = "exit status 1"

\* C10: when the calls never overlap, each call's configuration query runs
\* in its own local directory and, once all calls have returned, the working
\* directory is the one before the first call. (The witness is an
\* interleaving of two calls in which one call's query runs in the other
\* call's directory and the working directory ends up changed.)
C10_SerialCallsSafe ==
  /\ \A p \in procs :
       call[p].qran /\ ~call[p].overlap => call[p].qdir = call[p].local
  /\ (\A p \in procs : Done(p) /\ ~call[p].overlap) => cwd = cwd0

C10_Witness ==
  /\ \A p \in procs : Done(p) /\ call[p].overlap
  /\ \E p, q \in procs :
       /\ p # q
       /\ call[p].local # call[q].local
       /\ call[p].qran
       /\ call[p].qdir = call[q].local
  /\ cwd # cwd0

(* --------------------------- Update: claims --------------------------- *)

FetchCmd == <<"git", "fetch", h.RemoteLocation>>

PullCmd == <<"git", "pull">>

\* C5: pull is run only after the fetch against the tracked remote name has
\* succeeded. If fetch fails, no pull is run and Update returns fetch's
\* error; if fetch succeeds, pull is run exactly once and Update returns
\* pull's result.
C5_PullOnlyAfterFetch ==
  /\ \A i \in 1..Len(ulog) :
       ulog[i].cmd = PullCmd
       => i = 2 /\ ulog[1].cmd = FetchCmd /\ ulog[1].err = Nil
  /\ upc = "pull" => Len(ulog) = 1 /\ ulog[1].cmd = FetchCmd /\ ulog[1].err = Nil
  /\ upc = "returned" =>
       /\ Len(ulog) >= 1
       /\ ulog[1] = [cmd |-> FetchCmd, dir |-> h.local, err |-> ulog[1].err]
       /\ IF ulog[1].err # Nil
          THEN Len(ulog) = 1 /\ uret = ulog[1].err
          ELSE /\ Len(ulog) = 2
               /\ ulog[2].cmd = PullCmd
               /\ ulog[2].dir = h.local
               /\ uret = ulog[2].err

C5_Witness ==
  /\ upc = "returned"
  /\ Len(ulog) = 1
  /\ ulog[1].cmd = FetchCmd
  /\ uret = "exit status 128"

(* ---------------------- Branches and Tags: claims --------------------- *)

IsPrefix(pre, str) ==
  Len(pre) <= Len(str) /\ SubSeq(str, 1, Len(pre)) = pre

\* the ref-path of a line <hash> <ref-path>
RECURSIVE RefPath(_)
RefPath(line) ==
  IF line = <<>> THEN <<>>
  ELSE IF Head(line) = " " THEN Tail(line)
  ELSE RefPath(Tail(line))

\* one name per line whose ref-path is pre followed by a name, in dump order
RECURSIVE NamesUnder(_, _)
NamesUnder(lines, pre) ==
  IF lines = <<>> THEN <<>>
  ELSE LET path == RefPath(Head(lines))
       IN (IF IsPrefix(pre, path) /\ Len(path) > Len(pre)
           THEN <<SubSeq(path, Len(pre) + 1, Len(path))>>
           ELSE <<>>) \o NamesUnder(Tail(lines), pre)

RefsRemotes == <<"r", "e", "f", "s", "/", "r", "e", "m", "o", "t", "e", "s", "/">>

RefsTags == <<"r", "e", "f", "s", "/", "t", "a", "g", "s", "/">>

\* C7: Branches returns, in dump order, exactly one name per line whose
\* ref-path is refs/remotes/N/<name>, the name being everything after N/;
\* tags, local heads and refs of other remotes contribute no entry.
C7_BranchesOfRemoteOnly ==
  branchesRet.called /\ branchesRet.err = Nil
  => branchesRet.list =
       NamesUnder(dump, RefsRemotes \o h.RemoteLocation \o <<"/">>)

\* C7, the example of the claim: the lines for origin/main and
\* origin/feature/x with N = origin yield <<main, feature/x>>.
C7_Example ==
  /\ branchesRet.called
  /\ branchesRet.err = Nil
  /\ dump = <<LineOriginMain, LineOriginFeatureX>>
  /\ h.RemoteLocation = Origin
  => branchesRet.list = <<<<"m", "a", "i", "n">>, <<"f", "e", "a", "t", "u", "r", "e", "/", "x">>>>

\* C8: Tags returns, in dump order, exactly one name per line whose ref-path
\* is refs/tags/<name>, the name being everything after tags/; branches,
\* also one whose own name contains a tags/ segment, contribute no entry.
C8_TagRefsOnly ==
  tagsRet.called /\ tagsRet.err = Nil
  => tagsRet.list = NamesUnder(dump, RefsTags)

\* C8, the example of the claim: a dump holding the line of refs/tags/v1.0.0
\* yields <<v1.0.0>>.
C8_Example ==
  /\ tagsRet.called
  /\ tagsRet.err = Nil
  /\ dump = <<LineTagV1>>
  => tagsRet.list = <<<<"v", "1", ".", "0", ".", "0">>>>

===========================================================================
